---- MODULE Spec2Model ----
(***************************************************************************)
(* A model of the SFT label-masking tokenizer (sft/code/prepare_data.py)   *)
(* and of the distributed trainer (tutorial/ddp/chargpt/trainer.py).       *)
(*                                                                         *)
(* SpecTok runs preprocess_chat_dataset step by step on bounded            *)
(* conversations and chat templates.  Spec runs the Trainer of every       *)
(* worker of a launch, the launcher's abort and the restart.  SpecData   *)
(* runs the train dataloader's DistributedSampler epoch by epoch in a      *)
(* first run and in a resumed run.                                         *)
(***************************************************************************)
EXTENDS Integers, Sequences, FiniteSets, TLC

(***************************************************************************)
(* Bounds of the model.                                                    *)
(***************************************************************************)
MaxTurns == 3
MaxMarkup == 2
MaxCalls == 2
MaxEpochs == 4
MaxSaveEvery == 2
MaxBatches == 2
MaxWorld == 2
MaxDataset == 10

Min(a, b) == IF a < b THEN a ELSE b
Max(a, b) == IF a > b THEN a ELSE b

(***************************************************************************)
(* Python list primitives used by prepare_data.py.                         *)
(***************************************************************************)
\* [x] * n : n <= 0 gives the empty list.
PyRepeat(x, n) == [k \in 1..n |-> x]

\* A slice bound i on a list of length len, as Python clamps it.
PyIndex(i, len) == IF i < 0 THEN Max(0, len + i) ELSE Min(i, len)

\* lst[:n]
PySlicePrefix(lst, n) == SubSeq(lst, 1, PyIndex(n, Len(lst)))

\* lst[s:e] = repl : the clamped slice is replaced by repl, whatever its
\* length, so the list grows or shrinks when the lengths differ.
PySliceAssign(lst, s, e, repl) ==
    LET lo == PyIndex(s, Len(lst))
        hi == Max(lo, PyIndex(e, Len(lst)))
    IN  SubSeq(lst, 1, lo) \o repl \o SubSeq(lst, hi + 1, Len(lst))

(***************************************************************************)
(* The render function (tokenizer.apply_chat_template): a chat template    *)
(* with an optional preamble, a header per turn that depends on the role,  *)
(* the content, a footer, and a generation prompt that is the opening      *)
(* markup of an assistant turn.  It is deterministic and prefix-consistent.*)
(***************************************************************************)
Roles == {"user", "assistant", "system"}

ContentOf(role) ==
    CASE role = "user" -> <<50>>
      [] role = "assistant" -> <<60, 61>>
      [] OTHER -> <<70>>

Turns == {[role |-> r, content |-> ContentOf(r)] : r \in Roles}

\* Conversations of 1..MaxTurns turns; a system turn, when there is one, opens
\* the conversation.
Conversations ==
    {ms \in UNION {[1..n -> Turns] : n \in 1..MaxTurns} :
        \A i \in 2..Len(ms) : ms[i].role # "system"}

Templates ==
    [pre : 0..1, hdr : 1..MaxMarkup, gen : 0..MaxMarkup, ftr : 0..1]

GenPrompt(t) == [k \in 1..t.gen |-> 30 + k]

Header(t, role) ==
    IF role = "assistant"
    THEN GenPrompt(t)
    ELSE [k \in 1..t.hdr |-> (IF role = "user" THEN 10 ELSE 20) + k]

RenderTurn(t, m) == Header(t, m.role) \o m.content \o PyRepeat(2, t.ftr)

RECURSIVE RenderTurns(_, _)
RenderTurns(t, ms) ==
    IF Len(ms) = 0
    THEN <<>>
    ELSE RenderTurns(t, SubSeq(ms, 1, Len(ms) - 1)) \o RenderTurn(t, ms[Len(ms)])

apply_chat_template(t, ms, add_generation_prompt) ==
    PyRepeat(1, t.pre) \o RenderTurns(t, ms)
        \o (IF add_generation_prompt THEN GenPrompt(t) ELSE <<>>)

(***************************************************************************)
(* preprocess_chat_dataset                                                 *)
(***************************************************************************)
INGORE_INDEX == -100

VARIABLES
    messages,   \* messages["conversation"]: the example's turns
    tmpl,       \* the tokenizer's chat template
    config,     \* the config dict of the running call
    heap,       \* the lists the call has allocated, by reference
    data,       \* data: field name -> reference into heap (0: unbound)
    idx,        \* the loop index of line 27
    tpc,        \* "idle" | "loop" | "done"
    returned    \* the dicts returned so far, with the config of each call

tokVars == <<messages, tmpl, config, heap, data, idx, tpc, returned>>

(***************************************************************************)
(* The distributed trainer: state.                                         *)
(***************************************************************************)
VARIABLES
    launch,         \* the launcher's layout: nnodes nodes of nproc workers
    trainer_cfg,    \* TrainerConfig: max_epochs, save_every, use_amp
    train_batches,  \* len(train_dataloader) of every worker
    test_dataset,   \* the test_dataset argument: given or None, and its batches
    file,           \* what is stored at config.snapshot_path
    boot_file,      \* the file as it was when the current launch started
    pc,             \* per worker: where its Trainer is
    error,          \* per worker: the exception that ended it ("" if none)
    epochs_run,     \* per worker: self.epochs_run
    epoch,          \* per worker: the loop variable of train()
    iter,           \* per worker: the batch index inside _run_epoch
    model,          \* per worker: version of the model parameters
    optimizer,      \* per worker: version of the optimizer state
    snapshot,       \* per worker: the dict _save_snapshot has captured
    coll,           \* per worker: collective calls entered so far
    trained,        \* per worker: epochs whose training pass completed (this launch)
    writes,         \* per worker, the snapshot writes it started in this launch
    scaler,         \* per worker: self.scaler ("none": the attribute is not set)
    batch_ops,      \* per worker: what the last and the current training _run_batch did
    eval_ops        \* per worker: what its evaluation _run_batch calls have done

trainVars == <<launch, trainer_cfg, train_batches, test_dataset, file, boot_file,
               pc, error, epochs_run, epoch, iter, model, optimizer,
               snapshot, coll, trained, writes, scaler, batch_ops, eval_ops>>

(***************************************************************************)
(* The train dataloader's DistributedSampler, in a first run and in a run  *)
(* resumed from an earlier epoch: state.                                   *)
(***************************************************************************)
VARIABLES
    dataset_len,    \* len(train_dataset)
    num_replicas,   \* the sampler's num_replicas: the world size
    resumed_from,   \* epochs_run of the resumed run
    sampler,        \* per run: the sampler's epoch and how often it was iterated
    consumed        \* per run: epoch -> rank -> the indices the rank's loader yielded

dataVars == <<dataset_len, num_replicas, resumed_from, sampler, consumed>>

vars == <<tokVars, trainVars, dataVars>>

\* What no step of preprocess_chat_dataset touches.
tokFixed == <<messages, tmpl, trainVars, dataVars>>

BaseConfig == [num_proc |-> 1]
WithMaxLength(n) == [num_proc |-> 1, max_length |-> n]

NoData == [input_ids |-> 0, labels |-> 0, attention_mask |-> 0]

\* inputs.copy(): a new list with the same elements.
ListAlias(h, r) == [heap |-> h, ref |-> r]
ListCopy(h, r) == [heap |-> Append(h, h[r]), ref |-> Len(h) + 1]

\* Lines 29-32.
message_start_idx(i) ==
    IF i = 0
    THEN 0
    ELSE Len(apply_chat_template(tmpl, SubSeq(messages, 1, i), FALSE))

\* Lines 34-44.
message_end_idx_never_prompt(i) ==
    Len(apply_chat_template(tmpl, SubSeq(messages, 1, i + 1), FALSE))
message_end_idx(i) ==
    IF i < Len(messages) - 1 /\ messages[i + 2].role = "assistant"
    THEN Len(apply_chat_template(tmpl, SubSeq(messages, 1, i + 1), TRUE))
    ELSE Len(apply_chat_template(tmpl, SubSeq(messages, 1, i + 1), FALSE))

\* The right-hand side of the slice assignment of lines 46-48.
IgnoreFillOneMore(start, end) == PyRepeat(INGORE_INDEX, end - start + 1)
IgnoreFill(start, end) == PyRepeat(INGORE_INDEX, end - start)

\* The slices of lines 50-52.
TruncateKeepTail(lst, n) == SubSeq(lst, Len(lst) - PyIndex(n, Len(lst)) + 1, Len(lst))
Truncate(lst, n) == PySlicePrefix(lst, n)

TokInit ==
    /\ messages \in Conversations
    /\ tmpl \in Templates
    /\ config = BaseConfig
    /\ heap = <<>>
    /\ data = NoData
    /\ idx = 0
    /\ tpc = "idle"
    /\ returned = <<>>

\* A call starts: lines 20-25.
Tokenize(cfg) ==
    /\ tpc = "idle"
    /\ Len(returned) < MaxCalls
    /\ config' = cfg
    /\ LET inputs == apply_chat_template(tmpl, messages, TRUE)
           c == ListCopy(<<inputs>>, 1)
           h == Append(c.heap, PyRepeat(1, Len(inputs)))
       IN  /\ heap' = h
           /\ data' = [input_ids |-> 1, labels |-> c.ref, attention_mask |-> Len(h)]
    /\ idx' = 0
    /\ tpc' = "loop"
    /\ UNCHANGED <<tokFixed, returned>>

\* One iteration of the loop of lines 27-48.
MaskMessage ==
    /\ tpc = "loop"
    /\ idx < Len(messages)
    /\ IF messages[idx + 1].role # "assistant"
       THEN LET s == message_start_idx(idx)
                e == message_end_idx(idx)
            IN  heap' = [heap EXCEPT ![data.labels] =
                            PySliceAssign(@, s, e, IgnoreFill(s, e))]
       ELSE heap' = heap
    /\ idx' = idx + 1
    /\ UNCHANGED <<tokFixed, config, data, tpc, returned>>

\* The loop is over: lines 49-52.
Truncation ==
    /\ tpc = "loop"
    /\ idx = Len(messages)
    /\ IF "max_length" \in DOMAIN config
       THEN LET n == config.max_length
                h == heap \o << Truncate(heap[data.input_ids], n),
                                Truncate(heap[data.labels], n),
                                Truncate(heap[data.attention_mask], n) >>
            IN  /\ heap' = h
                /\ data' = [input_ids |-> Len(heap) + 1,
                            labels |-> Len(heap) + 2,
                            attention_mask |-> Len(heap) + 3]
       ELSE UNCHANGED <<heap, data>>
    /\ tpc' = "done"
    /\ UNCHANGED <<tokFixed, config, idx, returned>>

\* Line 53.
Return ==
    /\ tpc = "done"
    /\ returned' = Append(returned,
            [config |-> config,
             input_ids |-> heap[data.input_ids],
             labels |-> heap[data.labels],
             attention_mask |-> heap[data.attention_mask]])
    /\ heap' = <<>>
    /\ data' = NoData
    /\ idx' = 0
    /\ tpc' = "idle"
    /\ UNCHANGED <<tokFixed, config>>

\* The configs a call is made with: no max_length, or one from 0 to one past
\* the full length.  A second call repeats the first call's config or has none.
Configs ==
    {BaseConfig} \cup
    {WithMaxLength(n) : n \in 0..(Len(apply_chat_template(tmpl, messages, TRUE)) + 1)}

TokNext ==
    \/ \E cfg \in Configs :
          /\ returned # <<>> => cfg \in {returned[1].config, BaseConfig}
          /\ Tokenize(cfg)
    \/ MaskMessage
    \/ Truncation
    \/ Return

(***************************************************************************)
(* The distributed trainer (trainer.py).                                   *)
(***************************************************************************)
\* The period of the loss log and of the evaluation gather (iter % 100).
LogEvery == 100

\* Layouts the launcher can give: nnodes * nproc workers in all.
Launches ==
    {l \in [nnodes : 1..MaxWorld, nproc : 1..MaxWorld] : l.nnodes * l.nproc <= MaxWorld}

world_size == launch.nnodes * launch.nproc

\* A worker is named by its RANK; LOCAL_RANK is its index on its node.
Workers == 0..(world_size - 1)
global_rank(w) == w
local_rank(w) == w % launch.nproc

\* Versions of the parameters and of the optimizer state: the last batch
\* whose optimizer step they include.
Version(e, i) == [ep |-> e, it |-> i]
Fresh == Version(0, 0)

\* state_dict keys: the DDP wrapper holds its model as the submodule "module",
\* so its keys carry the prefix "module."; the unwrapped model's do not.
ParamNames == {"weight"}
RawKeys == {[prefix |-> "", name |-> n] : n \in ParamNames}
WrapperKeys == {[prefix |-> "module.", name |-> n] : n \in ParamNames}
state_dict(keys, v) == [k \in keys |-> v]

Absent == [state |-> "absent"]
Torn == [state |-> "torn"]
Stored(snap, origin) == [state |-> "complete", snapshot |-> snap, origin |-> origin]

\* A snapshot that another program left at the path, in the wrapper's key format.
ForeignSnapshot(k) ==
    [model_state |-> state_dict(WrapperKeys, Version(k, train_batches)),
     optimizer_state |-> Version(k, train_batches),
     finished_epoch |-> k]

\* The fields of the Snapshot dataclass (lines 25-29).
SnapshotFields == {"model_state", "optimizer_state", "finished_epoch"}

\* A file torch.load reads but whose dict is not a Snapshot: a field is missing.
MalformedSnapshot ==
    [model_state |-> state_dict(WrapperKeys, Fresh), optimizer_state |-> Fresh]

NoSnapshot == [model_state |-> <<>>, optimizer_state |-> Fresh, finished_epoch |-> 0]

\* Lines 74-82 of _save_snapshot: the state of the unwrapped model
\* (model.module), the optimizer state and the epoch.
CaptureSnapshotStaleOptimizer(w, e) ==
    [model_state |-> state_dict(RawKeys, model[w]),
     optimizer_state |-> Version(e, train_batches - 1),
     finished_epoch |-> e]
CaptureSnapshot(w, e) ==
    [model_state |-> state_dict(RawKeys, model[w]),
     optimizer_state |-> optimizer[w],
     finished_epoch |-> e]

\* What _load_snapshot leaves behind: the exception it raised ("" if none)
\* and self.model, self.optimizer, self.epochs_run.
Loaded(raised, m, o, n) ==
    [raised |-> raised, model |-> m, optimizer |-> o, epochs_run |-> n]

\* A _load_snapshot that catches every exception and starts afresh.
load_snapshot_catch_all ==
    IF /\ file.state = "complete"
       /\ DOMAIN file.snapshot = SnapshotFields
       /\ DOMAIN file.snapshot.model_state = WrapperKeys
    THEN Loaded("", file.snapshot.model_state[CHOOSE k \in WrapperKeys : TRUE],
                file.snapshot.optimizer_state, file.snapshot.finished_epoch)
    ELSE Loaded("", Fresh, Fresh, 0)

\* _load_snapshot (lines 86-101) of a trainer whose model is the DDP wrapper.
\* Only FileNotFoundError is caught: a missing file is a fresh start.  A file
\* torch.load cannot read raises at line 92, a dict without the fields of
\* Snapshot at line 97, and load_state_dict (strict) at line 98 when the keys
\* are not the wrapper's; epochs_run is assigned last.
load_snapshot ==
    IF file.state = "absent"
    THEN Loaded("", Fresh, Fresh, 0)
    ELSE IF file.state = "torn"
    THEN Loaded("torch.load", Fresh, Fresh, 0)
    ELSE IF DOMAIN file.snapshot # SnapshotFields
    THEN Loaded("Snapshot", Fresh, Fresh, 0)
    ELSE IF DOMAIN file.snapshot.model_state # WrapperKeys
    THEN Loaded("load_state_dict", Fresh, Fresh, 0)
    ELSE Loaded("", file.snapshot.model_state[CHOOSE k \in WrapperKeys : TRUE],
                file.snapshot.optimizer_state, file.snapshot.finished_epoch)

\* Line 162.
ShouldSaveSinceRestart(w, e) ==
    local_rank(w) = 0 /\ (e - epochs_run[w]) % trainer_cfg.save_every = 0
ShouldSave(w, e) == local_rank(w) = 0 /\ e % trainer_cfg.save_every = 0

\* Line 166: a DataLoader is truthy iff it has a batch.
HasEval == test_dataset.batches > 0

\* A collective completes for w once every worker has entered it.
AllEntered(w) == \A v \in Workers : coll[v] >= coll[w]

Active(w) == pc[w] \notin {"done", "crashed", "killed"}

\* _run_batch (lines 103-124): the calls it makes, in order.
run_batch_no_zero_grad(train) ==
    <<"forward">> \o
    (IF ~train
     THEN <<>>
     ELSE IF trainer_cfg.use_amp
          THEN <<"scaler.scale.backward", "clip_grad_norm", "scaler.step", "scaler.update">>
          ELSE <<"backward", "clip_grad_norm", "optimizer.step">>)
run_batch_train_in_eval(train) ==
    <<"forward", "zero_grad", "backward", "clip_grad_norm", "optimizer.step">>
run_batch(train) ==
    <<"forward">> \o
    (IF ~train
     THEN <<>>
     ELSE <<"zero_grad">> \o
          (IF trainer_cfg.use_amp
           THEN <<"scaler.scale.backward", "clip_grad_norm", "scaler.step", "scaler.update">>
           ELSE <<"backward", "clip_grad_norm", "optimizer.step">>))

BackwardOps == {"backward", "scaler.scale.backward"}
StepOps == {"optimizer.step", "scaler.step"}

\* The calls of a training _run_batch up to the backward pass, whose gradient
\* all-reduce waits for every worker; and the whole of it.
UpToBackward(ops) ==
    SubSeq(ops, 1, CHOOSE i \in DOMAIN ops :
                      ops[i] \in BackwardOps /\ \A j \in 1..(i - 1) : ops[j] \notin BackwardOps)

NoOps == [done |-> <<>>, cur |-> <<>>]

\* Parameters or optimizer state v after n batches of epoch e each made the
\* calls ops: every optimizer step takes them one version on.
ApplyOps(v, ops, e, n) ==
    LET k == n * Cardinality({i \in DOMAIN ops : ops[i] \in StepOps})
    IN  IF k = 0 THEN v ELSE Version(e, (IF v.ep = e THEN v.it ELSE 0) + k)

StartWorkers ==
    /\ pc = [w \in Workers |-> "init"]
    /\ error = [w \in Workers |-> ""]
    /\ epochs_run = [w \in Workers |-> 0]
    /\ epoch = [w \in Workers |-> 0]
    /\ iter = [w \in Workers |-> 0]
    /\ model = [w \in Workers |-> Fresh]
    /\ optimizer = [w \in Workers |-> Fresh]
    /\ snapshot = [w \in Workers |-> NoSnapshot]
    /\ coll = [w \in Workers |-> 0]
    /\ trained = [w \in Workers |-> <<>>]
    /\ writes = [w \in Workers |-> <<>>]
    /\ scaler = [w \in Workers |-> "none"]
    /\ batch_ops = [w \in Workers |-> NoOps]
    /\ eval_ops = [w \in Workers |-> {}]

TrainerInit ==
    /\ launch \in Launches
    /\ trainer_cfg \in [max_epochs : 1..MaxEpochs, save_every : 1..MaxSaveEvery,
                        use_amp : BOOLEAN]
    /\ train_batches \in 1..MaxBatches
    /\ test_dataset \in
          {[given |-> FALSE, batches |-> 0]} \cup
          [given : {TRUE}, batches : {0, MaxBatches}]
    /\ file \in {Absent, Torn, Stored(MalformedSnapshot, "other")} \cup
                {Stored(ForeignSnapshot(k), "other") : k \in 1..MaxSaveEvery}
    /\ boot_file = file
    /\ StartWorkers

\* What only a restart changes, and what nothing changes.
fixedVars == <<tokVars, dataVars, launch, train_batches, test_dataset>>
configVars == <<fixedVars, trainer_cfg, boot_file>>

(***************************************************************************)
(* A worker runs on its own from one blocking operation to the next: a     *)
(* collective (the gradient all-reduce inside backward, dist.gather) or a  *)
(* write of the snapshot file.  At(...) is where it blocks next.           *)
(***************************************************************************)
At(p, e, i, entered, err) ==
    [pc |-> p, epoch |-> e, iter |-> i, entered |-> entered, error |-> err]

\* The body of the loop of train() for epoch e (lines 156-160): the first
\* batch of _run_epoch up to the all-reduce of its backward pass; or the
\* return of train() when the range is exhausted.
StartEpoch(w, e) ==
    IF e <= trainer_cfg.max_epochs
    THEN At("sync", e, 0, 1, "")
    ELSE At("done", e - 1, 0, 0, "")

\* The iterations from i on at which _run_epoch(train=False) calls
\* dist.gather (line 134).
GatherIters(i) == {j \in i..(test_dataset.batches - 1) : j % LogEvery = 0}

\* Line 146: the workers that pass a gather_list to dist.gather; and line
\* 147, the rank the gather delivers to.
SuppliesGatherList(w) == local_rank(w) = 0
GatherDst == 0

\* _run_epoch(epoch, test_dataloader, train=False) from batch i on (lines
\* 165-167, 129-153): forward passes without gradients up to the next call
\* of dist.gather, which raises on a worker that is not rank 0 and passes a
\* gather_list; with no batch left, the next epoch.
RunEval(w, e, i) ==
    IF HasEval /\ GatherIters(i) # {}
    THEN LET j == CHOOSE x \in GatherIters(i) : \A y \in GatherIters(i) : x <= y
         IN  IF SuppliesGatherList(w) /\ global_rank(w) # GatherDst
             THEN At("crashed", e, j, 0, "gather_list")
             ELSE At("gather", e, j, 1, "")
    ELSE StartEpoch(w, e + 1)

\* After the training pass of epoch e (line 162).
AfterTrainPass(w, e) ==
    IF ShouldSave(w, e)
    THEN At("trained", e, train_batches, 0, "")
    ELSE RunEval(w, e, 0)

Move(w, to) ==
    /\ pc' = [pc EXCEPT ![w] = to.pc]
    /\ epoch' = [epoch EXCEPT ![w] = to.epoch]
    /\ iter' = [iter EXCEPT ![w] = to.iter]
    /\ coll' = [coll EXCEPT ![w] = @ + to.entered]
    /\ error' = [error EXCEPT ![w] = to.error]

\* The evaluation batches a worker runs on its way from evaluation iteration
\* i to where it blocks next.
EvalsFrom(to, i) ==
    IF ~HasEval THEN 0
    ELSE IF to.pc = "gather" \/ to.error = "gather_list" THEN to.iter - i + 1
    ELSE test_dataset.batches - i

\* Worker w goes on to `to` from parameters m and optimizer state o, having
\* completed the training batch `done`, through n evaluation batches.
Continue(w, to, m, o, done, n) ==
    /\ Move(w, to)
    /\ model' = [model EXCEPT ![w] = ApplyOps(m, run_batch(FALSE), epoch[w], n)]
    /\ optimizer' = [optimizer EXCEPT ![w] = ApplyOps(o, run_batch(FALSE), epoch[w], n)]
    /\ eval_ops' = [eval_ops EXCEPT ![w] =
                       IF n > 0 THEN @ \cup {run_batch(FALSE)[i] : i \in DOMAIN run_batch(FALSE)}
                       ELSE @]
    /\ batch_ops' = [batch_ops EXCEPT ![w] =
                        [done |-> done,
                         cur |-> IF to.pc = "sync" THEN UpToBackward(run_batch(TRUE))
                                 ELSE <<>>]]

\* Trainer.__init__ (lines 41-60), _load_snapshot included.  With
\* test_dataset = None, DistributedSampler(None) raises at line 51.
Trainer_init(w) ==
    /\ pc[w] = "init"
    /\ IF ~test_dataset.given
       THEN /\ Move(w, At("crashed", 0, 0, 0, "len(None)"))
            /\ UNCHANGED <<epochs_run, model, optimizer>>
       ELSE LET r == load_snapshot
            IN  IF r.raised # ""
                THEN /\ Move(w, At("crashed", 0, 0, 0, r.raised))
                     /\ UNCHANGED <<epochs_run, model, optimizer>>
                ELSE /\ Move(w, At("ready", 0, 0, 0, ""))
                     /\ epochs_run' = [epochs_run EXCEPT ![w] = r.epochs_run]
                     /\ model' = [model EXCEPT ![w] = r.model]
                     /\ optimizer' = [optimizer EXCEPT ![w] = r.optimizer]
    /\ scaler' = [scaler EXCEPT ![w] =
                     IF pc'[w] = "ready" /\ trainer_cfg.use_amp THEN "GradScaler" ELSE "none"]
    /\ UNCHANGED <<configVars, file, snapshot, trained, writes, batch_ops, eval_ops>>

\* train(), line 156: range(self.epochs_run, max_epochs) is evaluated once,
\* and epochs_run is not assigned afterwards.
train_begin(w) ==
    /\ pc[w] = "ready"
    /\ Continue(w, StartEpoch(w, epochs_run[w] + 1), model[w], optimizer[w], <<>>, 0)
    /\ UNCHANGED <<configVars, file, epochs_run, snapshot, trained, writes, scaler>>

\* _run_batch(train=True) once the all-reduce of its backward pass has
\* completed: clip and optimizer step (lines 113-123); then the next batch
\* up to its all-reduce, or the end of the training pass.
run_batch_step(w) ==
    /\ pc[w] = "sync"
    /\ AllEntered(w)
    /\ LET ops == run_batch(TRUE)
           m == ApplyOps(model[w], ops, epoch[w], 1)
           o == ApplyOps(optimizer[w], ops, epoch[w], 1)
       IN  IF iter[w] + 1 < train_batches
           THEN /\ Continue(w, At("sync", epoch[w], iter[w] + 1, 1, ""), m, o, ops, 0)
                /\ trained' = trained
           ELSE LET to == AfterTrainPass(w, epoch[w])
                IN  /\ Continue(w, to, m, o, ops,
                                IF to.pc = "trained" THEN 0 ELSE EvalsFrom(to, 0))
                    /\ trained' = [trained EXCEPT ![w] = Append(@, epoch[w])]
    /\ UNCHANGED <<configVars, file, epochs_run, snapshot, writes, scaler>>

\* Line 163 and _save_snapshot up to torch.save opening the path for
\* writing, which truncates what was there.
save_snapshot_begin(w) ==
    /\ pc[w] = "trained"
    /\ snapshot' = [snapshot EXCEPT ![w] = CaptureSnapshot(w, epoch[w])]
    /\ writes' = [writes EXCEPT ![w] =
                     Append(@, [after |-> trained[w][Len(trained[w])],
                                batches_done |-> model[w].it,
                                snapshot |-> CaptureSnapshot(w, epoch[w]),
                                done |-> FALSE])]
    /\ file' = Torn
    /\ Move(w, At("saving", epoch[w], iter[w], 0, ""))
    /\ UNCHANGED <<configVars, epochs_run, model, optimizer, trained, scaler, batch_ops,
                   eval_ops>>

\* torch.save returns (lines 83-84); the file is whole once no other worker
\* is still writing the same path.  Then the evaluation pass.
save_snapshot_end(w) ==
    /\ pc[w] = "saving"
    /\ file' = IF \E v \in Workers \ {w} : pc[v] = "saving"
               THEN Torn
               ELSE Stored(snapshot[w], "trainer")
    /\ writes' = [writes EXCEPT ![w] = [@ EXCEPT ![Len(@)].done = TRUE]]
    /\ LET to == RunEval(w, epoch[w], 0)
       IN  Continue(w, to, model[w], optimizer[w], batch_ops[w].done, EvalsFrom(to, 0))
    /\ UNCHANGED <<configVars, epochs_run, snapshot, trained, scaler>>

\* dist.gather returns once every worker has called it (lines 144-153); then
\* the rest of the evaluation pass.
eval_gather_done(w) ==
    /\ pc[w] = "gather"
    /\ AllEntered(w)
    /\ LET to == RunEval(w, epoch[w], iter[w] + 1)
       IN  Continue(w, to, model[w], optimizer[w], batch_ops[w].done,
                    EvalsFrom(to, iter[w] + 1))
    /\ UNCHANGED <<configVars, file, epochs_run, snapshot, trained, writes, scaler>>

\* A fatal error on some worker: the launcher ends every worker where it is,
\* and what its process held in memory is gone.  A write in progress is left
\* as it is.
Abort ==
    /\ \E w \in Workers : Active(w)
    /\ pc' = [w \in Workers |-> IF Active(w) THEN "killed" ELSE pc[w]]
    /\ epochs_run' = [w \in Workers |-> IF Active(w) THEN 0 ELSE epochs_run[w]]
    /\ epoch' = [w \in Workers |-> IF Active(w) THEN 0 ELSE epoch[w]]
    /\ iter' = [w \in Workers |-> IF Active(w) THEN 0 ELSE iter[w]]
    /\ model' = [w \in Workers |-> IF Active(w) THEN Fresh ELSE model[w]]
    /\ optimizer' = [w \in Workers |-> IF Active(w) THEN Fresh ELSE optimizer[w]]
    /\ snapshot' = [w \in Workers |-> IF Active(w) THEN NoSnapshot ELSE snapshot[w]]
    /\ coll' = [w \in Workers |-> IF Active(w) THEN 0 ELSE coll[w]]
    /\ scaler' = [w \in Workers |-> IF Active(w) THEN "none" ELSE scaler[w]]
    /\ UNCHANGED <<configVars, file, error, trained, writes, batch_ops, eval_ops>>

\* Every worker has stopped and the operator launches the job again, with
\* max_epochs = m, on whatever is at snapshot_path.
Restart(m) ==
    /\ \A w \in Workers : ~Active(w)
    /\ trainer_cfg' = [trainer_cfg EXCEPT !.max_epochs = m]
    /\ boot_file' = file
    /\ pc' = [w \in Workers |-> "init"]
    /\ error' = [w \in Workers |-> ""]
    /\ epochs_run' = [w \in Workers |-> 0]
    /\ epoch' = [w \in Workers |-> 0]
    /\ iter' = [w \in Workers |-> 0]
    /\ model' = [w \in Workers |-> Fresh]
    /\ optimizer' = [w \in Workers |-> Fresh]
    /\ snapshot' = [w \in Workers |-> NoSnapshot]
    /\ coll' = [w \in Workers |-> 0]
    /\ trained' = [w \in Workers |-> <<>>]
    /\ writes' = [w \in Workers |-> <<>>]
    /\ scaler' = [w \in Workers |-> "none"]
    /\ batch_ops' = [w \in Workers |-> NoOps]
    /\ eval_ops' = [w \in Workers |-> {}]
    /\ UNCHANGED <<fixedVars, file>>

TrainerNext ==
    \/ \E w \in Workers : Trainer_init(w)
    \/ \E w \in Workers : train_begin(w)
    \/ \E w \in Workers : run_batch_step(w)
    \/ \E w \in Workers : save_snapshot_begin(w)
    \/ \E w \in Workers : save_snapshot_end(w)
    \/ \E w \in Workers : eval_gather_done(w)
    \/ Abort
    \/ \E m \in 1..MaxEpochs : Restart(m)

\* The tokenizer when only the trainer runs, and the trainer when only the
\* tokenizer runs.
TokIdle ==
    /\ messages = <<>>
    /\ tmpl = [pre |-> 0, hdr |-> 1, gen |-> 1, ftr |-> 0]
    /\ config = BaseConfig
    /\ heap = <<>>
    /\ data = NoData
    /\ idx = 0
    /\ tpc = "off"
    /\ returned = <<>>

TrainerOff ==
    /\ launch = [nnodes |-> 1, nproc |-> 1]
    /\ trainer_cfg = [max_epochs |-> 1, save_every |-> 1, use_amp |-> FALSE]
    /\ train_batches = 1
    /\ test_dataset = [given |-> TRUE, batches |-> 0]
    /\ file = Absent
    /\ boot_file = Absent
    /\ pc = [w \in Workers |-> "done"]
    /\ error = [w \in Workers |-> ""]
    /\ epochs_run = [w \in Workers |-> 0]
    /\ epoch = [w \in Workers |-> 0]
    /\ iter = [w \in Workers |-> 0]
    /\ model = [w \in Workers |-> Fresh]
    /\ optimizer = [w \in Workers |-> Fresh]
    /\ snapshot = [w \in Workers |-> NoSnapshot]
    /\ coll = [w \in Workers |-> 0]
    /\ trained = [w \in Workers |-> <<>>]
    /\ writes = [w \in Workers |-> <<>>]
    /\ scaler = [w \in Workers |-> "none"]
    /\ batch_ops = [w \in Workers |-> NoOps]
    /\ eval_ops = [w \in Workers |-> {}]

(***************************************************************************)
(* DistributedSampler(dataset) as line 69 constructs it: num_replicas and  *)
(* rank from the process group, shuffle = True, seed = 0, drop_last =      *)
(* False.                                                                  *)
(***************************************************************************)
SamplerSeed == 0

Runs == {"first", "resumed"}
Ranks == 0..(num_replicas - 1)

\* torch.randperm(n, generator seeded with g): a permutation of 0..n-1 that
\* the seed determines.
randperm(n, g) == [i \in 1..n |-> (i - 1 + g) % n]

\* ceil(len(dataset) / num_replicas) and total_size.
num_samples == (dataset_len + num_replicas - 1) \div num_replicas
total_size == num_samples * num_replicas

\* The generator's seed: seed + epoch.
ShuffleSeedByDraws(s) == SamplerSeed + s.draws
ShuffleSeed(s) == SamplerSeed + s.epoch

\* DistributedSampler.__iter__ for a rank: shuffle, pad to total_size by
\* repeating indices from the start, take every num_replicas-th from rank on.
SamplerIndices(s, rank) ==
    LET indices == randperm(dataset_len, ShuffleSeed(s))
        padded == [i \in 1..total_size |-> indices[((i - 1) % dataset_len) + 1]]
    IN  [j \in 1..num_samples |-> padded[rank + (j - 1) * num_replicas + 1]]

DataOff ==
    /\ dataset_len = 1
    /\ num_replicas = 1
    /\ resumed_from = 0
    /\ sampler = [r \in Runs |-> [epoch |-> 0, draws |-> 0]]
    /\ consumed = [r \in Runs |-> <<>>]

SamplerInit ==
    /\ dataset_len \in 1..MaxDataset
    /\ num_replicas \in 1..MaxWorld
    /\ resumed_from \in 1..(MaxEpochs - 1)
    /\ sampler = [r \in Runs |-> [epoch |-> 0, draws |-> 0]]
    /\ consumed = [r \in Runs |-> <<>>]

\* The epoch a run trains next: train() starts after epochs_run.
NextEpoch(run) ==
    (IF run = "resumed" THEN resumed_from ELSE 0) + sampler[run].draws + 1

\* _run_epoch(epoch, train_dataloader) on every worker of a run: set_epoch
\* (line 128), then the loader yields the sampler's indices in batches
\* (line 129).
run_epoch(run) ==
    LET e == NextEpoch(run)
        s == [sampler[run] EXCEPT !.epoch = e]
    IN  /\ e <= MaxEpochs
        /\ sampler' = [sampler EXCEPT ![run] = [s EXCEPT !.draws = @ + 1]]
        /\ consumed' = [consumed EXCEPT ![run] =
                           [x \in (DOMAIN @) \cup {e} |->
                               IF x = e THEN [r \in Ranks |-> SamplerIndices(s, r)]
                               ELSE @[x]]]
        /\ UNCHANGED <<tokVars, trainVars, dataset_len, num_replicas, resumed_from>>

DataNext == \E run \in Runs : run_epoch(run)

InitTok == TokInit /\ TrainerOff /\ DataOff
SpecTok == InitTok /\ [][TokNext]_vars

Init == TokIdle /\ DataOff /\ TrainerInit
Next == TrainerNext
Spec == Init /\ [][Next]_vars

InitData == TokIdle /\ TrainerOff /\ SamplerInit
SpecData == InitData /\ [][DataNext]_vars

(***************************************************************************)
(* Properties of preprocess_chat_dataset.                                  *)
(***************************************************************************)
InputIds == heap[data.input_ids]
Labels == heap[data.labels]
AttentionMask == heap[data.attention_mask]

\* len(render(turns[:k], gen)), by the render function alone.
RenderLen(k, gen) == Len(apply_chat_template(tmpl, SubSeq(messages, 1, k), gen))

IsAssistant(k) == messages[k].role = "assistant"

\* The call has finished masking and does not truncate.
MaskedUntruncated == tpc = "done" /\ "max_length" \notin DOMAIN config

\* Turn k's span [start, end) as claim C1 gives it for a non-assistant turn.
SpanStart(k) == IF k = 1 THEN 0 ELSE RenderLen(k - 1, FALSE)
SpanEnd(k) == RenderLen(k, k < Len(messages) /\ IsAssistant(k + 1))

\* An assistant turn's span starts where the span of the turn before it ends.
AssistantStart(k) == IF k = 1 THEN 0 ELSE RenderLen(k - 1, ~IsAssistant(k - 1))

\* The two-turn scenario: prefix lengths 0, 5 with prompt, 3 without, full 9.
TwoTurnScenario ==
    /\ Len(messages) = 2
    /\ messages[1].role = "user"
    /\ messages[2].role = "assistant"
    /\ RenderLen(1, TRUE) = 5
    /\ RenderLen(1, FALSE) = 3
    /\ RenderLen(2, TRUE) = 9

\* C1: after a call with no max_length, every label in a non-assistant turn's
\* span [start, end) is IGNORE, where end takes in the generation prompt iff
\* the next turn is an assistant turn, and every label in an assistant turn's
\* span equals the input id at the same position; in the two-turn scenario
\* labels[0:5] are IGNORE and labels[5:9] == input_ids[5:9].
C1_MaskedSpans ==
    MaskedUntruncated =>
        /\ \A k \in 1..Len(messages) :
              IF ~IsAssistant(k)
              THEN \A p \in (SpanStart(k) + 1)..SpanEnd(k) :
                      p \in DOMAIN Labels /\ Labels[p] = INGORE_INDEX
              ELSE \A p \in (AssistantStart(k) + 1)..RenderLen(k, FALSE) :
                      p \in DOMAIN Labels /\ Labels[p] = InputIds[p]
        /\ TwoTurnScenario =>
              /\ Len(Labels) = 9
              /\ \A p \in 1..5 : Labels[p] = INGORE_INDEX
              /\ \A p \in 6..9 : Labels[p] = InputIds[p]

C1_Witness == MaskedUntruncated /\ TwoTurnScenario

\* C2: after a call with no max_length, every position whose label is not
\* IGNORE lies inside the span of some assistant turn, [len(render(turns[:k])),
\* len(render(turns[:k+1]))); every position outside those spans, the
\* generation prompt after the last turn included, has label IGNORE.
C2_OnlyAssistantEligible ==
    MaskedUntruncated =>
        \A p \in DOMAIN Labels :
            Labels[p] # INGORE_INDEX =>
                \E k \in 1..Len(messages) :
                    /\ IsAssistant(k)
                    /\ SpanStart(k) < p
                    /\ p <= RenderLen(k, FALSE)

\* C3: input_ids, labels and attention_mask have the same length while the
\* labels are being masked, after truncation, and in every returned dict.
C3_EqualLengths ==
    /\ tpc \in {"loop", "done"} =>
          /\ Len(InputIds) = Len(Labels)
          /\ Len(Labels) = Len(AttentionMask)
    /\ \A i \in DOMAIN returned :
          /\ Len(returned[i].input_ids) = Len(returned[i].labels)
          /\ Len(returned[i].labels) = Len(returned[i].attention_mask)

C3_Witness ==
    /\ tpc = "done"
    /\ "max_length" \in DOMAIN config
    /\ config.max_length > 0
    /\ config.max_length < RenderLen(Len(messages), TRUE)
    /\ Len(Labels) = config.max_length
    /\ \E p \in DOMAIN Labels : Labels[p] = INGORE_INDEX
    /\ \E p \in DOMAIN Labels : Labels[p] # INGORE_INDEX

\* C4: for 0 <= n <= full length, the dict returned with max_length = n holds
\* the first n elements of each field of the dict returned with no max_length.
C4_TruncationLaw ==
    \A i, j \in DOMAIN returned :
        ( /\ "max_length" \notin DOMAIN returned[i].config
          /\ "max_length" \in DOMAIN returned[j].config
          /\ returned[j].config.max_length <= Len(returned[i].input_ids) ) =>
            LET n == returned[j].config.max_length
            IN  /\ returned[j].input_ids = SubSeq(returned[i].input_ids, 1, n)
                /\ returned[j].labels = SubSeq(returned[i].labels, 1, n)
                /\ returned[j].attention_mask = SubSeq(returned[i].attention_mask, 1, n)

C4_Witness ==
    /\ Len(returned) = 2
    /\ "max_length" \in DOMAIN returned[1].config
    /\ "max_length" \notin DOMAIN returned[2].config
    /\ returned[1].config.max_length > 1
    /\ returned[1].config.max_length < Len(returned[2].input_ids)
    /\ \E p \in DOMAIN returned[1].labels : returned[1].labels[p] = INGORE_INDEX
    /\ \E p \in DOMAIN returned[1].labels : returned[1].labels[p] # INGORE_INDEX

\* C5: every step of a call leaves the conversation as it was given and
\* input_ids equal to the full render (writing IGNORE into labels does not
\* reach input_ids), and two calls with the same config return the same dict.
C5_Idempotent ==
    [][ /\ messages' = messages
        /\ tpc' = "loop" =>
              heap'[data'.input_ids] = apply_chat_template(tmpl', messages', TRUE)
        /\ \A i, j \in DOMAIN returned' :
              returned'[i].config = returned'[j].config => returned'[i] = returned'[j]
      ]_tokVars

C5_Witness ==
    /\ Len(returned) = 2
    /\ returned[1].config = returned[2].config
    /\ "max_length" \in DOMAIN returned[1].config
    /\ \E p \in DOMAIN returned[2].labels : returned[2].labels[p] = INGORE_INDEX
    /\ \E p \in DOMAIN returned[2].labels : returned[2].labels[p] # INGORE_INDEX

(***************************************************************************)
(* Properties of the trainer.                                              *)
(***************************************************************************)
Range(q) == {q[i] : i \in DOMAIN q}

\* <<a+1, ..., b>>, empty when b <= a.
EpochsFrom(a, b) == [i \in 1..(b - a) |-> a + i]

IsPrefix(p, q) == Len(p) <= Len(q) /\ \A i \in DOMAIN p : p[i] = q[i]

\* The worker with global rank 0.
Coordinator == 0

\* The exceptions _load_snapshot lets through.
LoadErrors == {"torch.load", "Snapshot", "load_state_dict"}

\* The launch started from a snapshot that an earlier run of the trainer wrote.
ResumedFromOwnSnapshot ==
    /\ boot_file.state = "complete"
    /\ boot_file.origin = "trainer"

\* C6: a trainer restarted on a snapshot the trainer wrote at epoch k loads
\* it and, with max_epochs = m, trains epochs k+1, ..., m in order, each once,
\* and ends with epochs_run = m; with k >= m it trains no epoch.
C6_ResumeCorrectness ==
    ResumedFromOwnSnapshot =>
        LET k == boot_file.snapshot.finished_epoch
            m == trainer_cfg.max_epochs
        IN  \A w \in Workers :
                /\ error[w] \notin LoadErrors
                /\ IsPrefix(trained[w], EpochsFrom(k, m))
                /\ pc[w] = "done" =>
                      /\ trained[w] = EpochsFrom(k, m)
                      /\ m > k => epochs_run[w] = m

\* The epochs for which worker w has started a snapshot write, in order.
WrittenEpochs(w) == [i \in DOMAIN writes[w] |-> writes[w][i].snapshot.finished_epoch]

\* Some snapshot write of worker w has completed.
HasWritten(w) == \E i \in DOMAIN writes[w] : writes[w][i].done

\* Worker w is past line 162 of the iteration for epoch e.
PastSavePoint(w, e) ==
    \/ pc[w] \in {"sync", "trained", "saving", "gather", "done"} /\ epoch[w] > e
    \/ pc[w] \in {"saving", "gather", "done"} /\ epoch[w] = e

\* C7: the coordinator writes a snapshot after training epoch e iff e is a
\* multiple of save_every, once, with finished_epoch = e, in a fresh and in a
\* resumed run alike; with save_every = 2 and epochs 1..4 it writes after
\* epochs 2 and 4 only.
C7_CheckpointCadence ==
    LET c == Coordinator
        written == WrittenEpochs(c)
    IN  /\ \A i \in DOMAIN written :
              /\ written[i] \in Range(trained[c])
              /\ written[i] % trainer_cfg.save_every = 0
              /\ \A j \in DOMAIN written : written[j] = written[i] => j = i
        /\ \A e \in Range(trained[c]) :
              (e % trainer_cfg.save_every = 0 /\ PastSavePoint(c, e)) =>
                  e \in Range(written)
        /\ \A e \in Range(trained[c]) :
              (e % trainer_cfg.save_every # 0 /\ PastSavePoint(c, e)) =>
                  e \notin Range(written)
        /\ (trainer_cfg.save_every = 2 /\ pc[c] = "done" /\ trained[c] = <<1, 2, 3, 4>>) =>
              written = <<2, 4>>

C7_Witness ==
    /\ trainer_cfg.save_every = 2
    /\ pc[Coordinator] = "done"
    /\ trained[Coordinator] = <<1, 2, 3, 4>>
    /\ WrittenEpochs(Coordinator) = <<2, 4>>

\* C8: in every launch configuration at most one worker ever writes the
\* snapshot path, and two writes are never in progress at the same time.
C8_SingleWriter ==
    /\ Cardinality({w \in Workers : writes[w] # <<>>}) <= 1
    /\ Cardinality({w \in Workers : pc[w] = "saving"}) <= 1

\* The state at the end of completed training epoch e.
EndOfEpoch(e) == Version(e, train_batches)

ConsistentSnapshot(s) ==
    /\ s.finished_epoch >= 1
    /\ \A k \in DOMAIN s.model_state : s.model_state[k] = EndOfEpoch(s.finished_epoch)
    /\ s.optimizer_state = EndOfEpoch(s.finished_epoch)

\* C9: every snapshot the trainer captures is taken when all batches of a
\* training epoch are done, holds the model and optimizer state of the end
\* of that epoch and that epoch as finished_epoch; the file the trainer has
\* written holds such a snapshot for as long as it is whole, the evaluation
\* pass after the write included.
C9_SnapshotConsistency ==
    /\ \A w \in Workers :
          \A i \in DOMAIN writes[w] :
              /\ writes[w][i].batches_done = train_batches
              /\ writes[w][i].snapshot.finished_epoch = writes[w][i].after
              /\ ConsistentSnapshot(writes[w][i].snapshot)
    /\ (file.state = "complete" /\ file.origin = "trainer") =>
          ConsistentSnapshot(file.snapshot)

C9_Witness ==
    /\ file.state = "complete"
    /\ file.origin = "trainer"
    /\ file.snapshot.finished_epoch = 2
    /\ \E w \in Workers :
          /\ pc[w] = "gather"
          /\ epoch[w] = 2
          /\ HasWritten(w)

\* The run has been ended by a fatal error.
Aborted ==
    /\ \A w \in Workers : ~Active(w)
    /\ \E w \in Workers : pc[w] \in {"killed", "crashed"}

\* C10: when the run is aborted after a snapshot write has completed, the
\* file at snapshot_path is still a complete snapshot, one that torch.load
\* reads, of some completed epoch.
C10_RecoveryPoint ==
    (Aborted /\ \E w \in Workers : HasWritten(w)) =>
        /\ file.state = "complete"
        /\ ConsistentSnapshot(file.snapshot)

(***************************************************************************)
(* Claims C11-C20.                                                         *)
(***************************************************************************)
\* The file at the start of the launch is not one torch.load and Snapshot(**)
\* turn into a snapshot.
Undeserializable(f) ==
    \/ f.state = "torn"
    \/ f.state = "complete" /\ DOMAIN f.snapshot # SnapshotFields

\* C11: a trainer whose construction reaches _load_snapshot: with no file at
\* snapshot_path it does not fail in the load and starts with the model and
\* optimizer as given and epochs_run = 0; with a file that is not a
\* serialized snapshot it ends with the load error, and never trains, fresh
\* or resumed.
C11_LoadOutcomes ==
    \A w \in Workers :
        (test_dataset.given /\ pc[w] # "init") =>
            /\ boot_file.state = "absent" =>
                  /\ error[w] \notin LoadErrors
                  /\ pc[w] = "ready" =>
                        /\ epochs_run[w] = 0
                        /\ model[w] = Fresh
                        /\ optimizer[w] = Fresh
            /\ Undeserializable(boot_file) =>
                  /\ pc[w] \in {"crashed", "killed"}
                  /\ pc[w] = "crashed" => error[w] \in {"torch.load", "Snapshot"}
                  /\ epochs_run[w] = 0
                  /\ trained[w] = <<>>

C11_Witness ==
    /\ boot_file.state = "complete"
    /\ Undeserializable(boot_file)
    /\ \E w \in Workers : pc[w] = "crashed" /\ error[w] = "Snapshot"

\* C12: a newly constructed trainer given a snapshot file that _save_snapshot
\* wrote loads it without error, and then holds the model parameters, the
\* optimizer state and the epoch that were captured at save time.
C12_RoundTrip ==
    ResumedFromOwnSnapshot =>
        \A w \in Workers :
            pc[w] # "init" =>
                /\ error[w] \notin LoadErrors
                /\ pc[w] = "ready" =>
                      /\ \A k \in DOMAIN boot_file.snapshot.model_state :
                            model[w] = boot_file.snapshot.model_state[k]
                      /\ optimizer[w] = boot_file.snapshot.optimizer_state
                      /\ epochs_run[w] = boot_file.snapshot.finished_epoch

\* The dataset indices a rank consumed in an epoch of a run.
Shard(run, e, r) == Range(consumed[run][e][r])

\* The ranks' shards of an epoch share no index, and no rank has one twice.
DisjointShards(run, e) ==
    /\ \A r1, r2 \in Ranks : r1 # r2 => Shard(run, e, r1) \cap Shard(run, e, r2) = {}
    /\ \A r \in Ranks : Cardinality(Shard(run, e, r)) = Len(consumed[run][e][r])

CoversDataset(run, e) == UNION {Shard(run, e, r) : r \in Ranks} = 0..(dataset_len - 1)

\* An epoch that both runs have trained was sharded the same way in both.
SamePartitionOnResume ==
    \A e \in DOMAIN consumed["first"] \cap DOMAIN consumed["resumed"] :
        consumed["first"][e] = consumed["resumed"][e]

\* C13 as stated: in every epoch the workers' index sets are pairwise
\* disjoint and cover the dataset (2 workers, 10 examples: 5 each), and a
\* resumed run shards epoch e as the first run did.
C13_Sharding ==
    /\ \A run \in Runs : \A e \in DOMAIN consumed[run] :
          /\ DisjointShards(run, e)
          /\ CoversDataset(run, e)
          /\ (num_replicas = 2 /\ dataset_len = 10) =>
                \A r \in Ranks : Cardinality(Shard(run, e, r)) = 5
    /\ SamePartitionOnResume

\* C13 amended: in every epoch the workers' index sets cover the dataset and
\* every worker consumes ceil(N / world_size) indices; the sets are pairwise
\* disjoint when world_size divides N (2 workers, 10 examples: 5 each);
\* otherwise the sampler pads with repeated indices.  A resumed run shards
\* epoch e as the first run did.
C13_ShardingAmended ==
    /\ \A run \in Runs : \A e \in DOMAIN consumed[run] :
          /\ CoversDataset(run, e)
          /\ \A r \in Ranks : Len(consumed[run][e][r]) = num_samples
          /\ dataset_len % num_replicas = 0 => DisjointShards(run, e)
          /\ (num_replicas = 2 /\ dataset_len = 10) =>
                \A r \in Ranks : Cardinality(Shard(run, e, r)) = 5
    /\ SamePartitionOnResume

C13_Witness ==
    /\ num_replicas = 2
    /\ dataset_len = 10
    /\ resumed_from = 1
    /\ {2, 3} \subseteq DOMAIN consumed["first"] \cap DOMAIN consumed["resumed"]
    /\ consumed["resumed"][2] # consumed["resumed"][3]
    /\ DisjointShards("resumed", 3)

\* C14: after a call with no max_length on a conversation whose last turn is
\* not an assistant turn, every label from the start of that turn to the end
\* of the output, the generation prompt appended by the render included, is
\* IGNORE.
C14_MaskedTail ==
    (MaskedUntruncated /\ ~IsAssistant(Len(messages))) =>
        \A p \in (SpanStart(Len(messages)) + 1)..Len(Labels) :
            Labels[p] = INGORE_INDEX

\* C15: in a trainer that is running or has returned from train(), once the
\* training pass of epoch e has completed epochs_run is e, and when train()
\* has returned after training it is max_epochs.
C15_EpochCounter ==
    \A w \in Workers :
        (pc[w] \notin {"killed", "crashed"} /\ trained[w] # <<>>) =>
            /\ epochs_run[w] = trained[w][Len(trained[w])]
            /\ pc[w] = "done" => epochs_run[w] = trainer_cfg.max_epochs

\* Worker w completes dist.gather and runs the rest of its evaluation pass.
EvalStep(w) ==
    /\ pc[w] = "gather"
    /\ <<pc'[w], epoch'[w], iter'[w]>> # <<pc[w], epoch[w], iter[w]>>
    /\ pc'[w] \in {"gather", "sync", "done", "crashed"}

\* C16: an evaluation pass makes no call of _run_batch but the forward pass;
\* a worker that waits in the gather of the evaluation of epoch e holds the
\* parameters and optimizer state of the end of training epoch e, and the
\* rest of its evaluation pass leaves its parameters, optimizer state and
\* epochs_run and the snapshot file as they are.
C16_EvalNoTraining ==
    [][ \A w \in Workers :
          /\ eval_ops'[w] \subseteq {"forward"}
          /\ pc'[w] = "gather" =>
                /\ model'[w] = Version(epoch'[w], train_batches)
                /\ optimizer'[w] = Version(epoch'[w], train_batches)
          /\ EvalStep(w) =>
                /\ model'[w] = model[w]
                /\ optimizer'[w] = optimizer[w]
                /\ epochs_run'[w] = epochs_run[w]
                /\ file' = file
      ]_vars

C16_Witness ==
    /\ test_dataset.batches = MaxBatches
    /\ \E w \in Workers :
          /\ pc[w] = "sync"
          /\ epoch[w] = 2
          /\ trained[w] = <<1>>
          /\ eval_ops[w] = {"forward"}
          /\ model[w] = Version(1, train_batches)

\* Worker w waits in a collective call.
InCollective(w) == pc[w] \in {"sync", "gather"}

\* The collective calls of one epoch: a gradient all-reduce per training
\* batch and a gather per evaluation iteration with iter % 100 = 0.
CollectivesPerEpoch ==
    train_batches + (IF HasEval THEN Cardinality(GatherIters(0)) ELSE 0)

\* C17: the workers of a launch start from the same epoch; two workers that
\* wait in their n-th collective wait in the same call (same kind, epoch and
\* iteration); a worker that has returned from train() has entered one
\* all-reduce per training batch and one gather per evaluation iteration
\* with iter % 100 = 0; no worker ends in a collective call, and while no
\* worker has been ended some worker that has not returned can take a step.
C17_Lockstep ==
    /\ \A v, w \in Workers :
          /\ (pc[v] = "ready" /\ pc[w] = "ready") => epochs_run[v] = epochs_run[w]
          /\ (InCollective(v) /\ InCollective(w) /\ coll[v] = coll[w]) =>
                <<pc[v], epoch[v], iter[v]>> = <<pc[w], epoch[w], iter[w]>>
    /\ \A w \in Workers :
          /\ pc[w] = "done" => coll[w] = Len(trained[w]) * CollectivesPerEpoch
          /\ error[w] # "gather_list"
    /\ (\A w \in Workers : pc[w] \notin {"crashed", "killed"}) =>
          \/ \A w \in Workers : pc[w] = "done"
          \/ \E w \in Workers :
                \/ pc[w] \in {"init", "ready", "trained", "saving"}
                \/ InCollective(w) /\ AllEntered(w)

\* C18: in every launch layout, a worker that calls the evaluation gather
\* supplies the receive list (and prints the gathered losses) iff it is the
\* gather's destination, global rank 0, and no worker's gather call fails.
C18_GatherToCoordinator ==
    \A w \in Workers :
        /\ error[w] # "gather_list"
        /\ pc[w] = "gather" =>
              (SuppliesGatherList(w) <=> global_rank(w) = Coordinator)

\* C19: with test_dataset = None the construction of the Trainer does not
\* fail on it and train() makes no evaluation batch and no gather; with a
\* test dataset that has batches, a worker that has returned from train()
\* has made one evaluation pass, with its gathers, per training epoch.
C19_EvalOptional ==
    \A w \in Workers :
        /\ error[w] # "len(None)"
        /\ ~test_dataset.given => (eval_ops[w] = {} /\ pc[w] # "gather")
        /\ (HasEval /\ pc[w] = "done" /\ trained[w] # <<>>) =>
              /\ eval_ops[w] # {}
              /\ coll[w] - Len(trained[w]) * train_batches =
                    Len(trained[w]) * Cardinality(GatherIters(0))

\* The calls from the backward pass on, with and without use_amp.
BackwardToStep ==
    IF trainer_cfg.use_amp
    THEN <<"scaler.scale.backward", "clip_grad_norm", "scaler.step", "scaler.update">>
    ELSE <<"backward", "clip_grad_norm", "optimizer.step">>

\* Every training batch of every worker makes exactly the calls `expected`,
\* in that order; the parameters and the optimizer state have taken one
\* step per batch trained; self.scaler exists iff use_amp is set.
StepProtocol(expected) ==
    \A w \in Workers :
        /\ batch_ops[w].done \in {<<>>, expected}
        /\ IsPrefix(batch_ops[w].cur, expected)
        /\ (pc[w] = "sync" /\ iter[w] > 0) =>
              /\ batch_ops[w].done = expected
              /\ model[w] = Version(epoch[w], iter[w])
              /\ optimizer[w] = Version(epoch[w], iter[w])
        /\ pc[w] \in {"trained", "saving", "gather"} =>
              /\ batch_ops[w].done = expected
              /\ model[w] = Version(epoch[w], train_batches)
              /\ optimizer[w] = Version(epoch[w], train_batches)
        /\ Active(w) /\ pc[w] # "init" =>
              (scaler[w] = "GradScaler" <=> trainer_cfg.use_amp)
        /\ ~trainer_cfg.use_amp => scaler[w] = "none"

\* C20 as stated: every training batch is one step made of, in this order,
\* zero gradients, forward, backward (scaled with use_amp), clip, optimizer
\* step (scaler step and one scaler update with use_amp); no batch is
\* skipped or stepped twice; no scaler without use_amp.
C20_StepProtocol == StepProtocol(<<"zero_grad", "forward">> \o BackwardToStep)

\* C20 amended: the same with the forward pass first and the gradients
\* zeroed after it, before the backward pass.
C20_StepProtocolAmended == StepProtocol(<<"forward", "zero_grad">> \o BackwardToStep)

C20_Witness ==
    /\ trainer_cfg.use_amp
    /\ train_batches = 2
    /\ \E w \in Workers :
          /\ pc[w] = "sync"
          /\ epoch[w] = 2
          /\ iter[w] = 1
          /\ scaler[w] = "GradScaler"
          /\ batch_ops[w].done = <<"forward", "zero_grad", "scaler.scale.backward",
                                   "clip_grad_norm", "scaler.step", "scaler.update">>
          /\ model[w] = Version(2, 1)

====
